---- MODULE Spec2Model ----
(***************************************************************************)
(* Model of src/init.py: the file generator that feeds the input folder.   *)
(* _parse_tiempo turns a duration expression into seconds; run_simulator   *)
(* paces `cantidad` file creations over that duration, optionally in a     *)
(* loop, until the process-wide stop flag is seen at a checkpoint.         *)
(*                                                                         *)
(* A string is a sequence of one-character strings.  The monotonic clock   *)
(* is an integer number of ticks, Scale ticks to the second, so that       *)
(* total_seconds / cantidad is exact for every cantidad the model calls.   *)
(***************************************************************************)
EXTENDS Integers, Sequences, FiniteSets, TLC

(***************************************************************************)
(* Bounds of the model.                                                    *)
(***************************************************************************)
\* longest duration expression the parser is checked on
MaxLen == 4
\* largest event count a run is called with
MaxCantidad == 2
\* cycles the process may start, over all its runs
MaxCycles == 2
\* run_simulator calls in one process
MaxRuns == 2
\* creation attempts the process may make, over all its cycles
MaxAttempts == 4

(***************************************************************************)
(* Program constants (src/init.py:11-13).                                  *)
(***************************************************************************)
EXTENSIONS == <<".payf", ".deb", ".transfer", ".credit", ".cash">>
MAX_SIZE == 5 * 1024

(***************************************************************************)
(* Characters.                                                             *)
(***************************************************************************)
DigitChars == <<"0", "1", "2", "3", "4", "5", "6", "7", "8", "9">>
LowerChars == <<"a", "b", "c", "d", "e", "f", "g", "h", "i", "j", "k", "l", "m",
                "n", "o", "p", "q", "r", "s", "t", "u", "v", "w", "x", "y", "z">>
UpperChars == <<"A", "B", "C", "D", "E", "F", "G", "H", "I", "J", "K", "L", "M",
                "N", "O", "P", "Q", "R", "S", "T", "U", "V", "W", "X", "Y", "Z">>

\* regex \d
IsDigit(c) == \E k \in 1..10 : DigitChars[k] = c
DigitValue(c) == CHOOSE k \in 0..9 : DigitChars[k + 1] = c
\* regex \s
IsSpaceChar(c) == c \in {" ", "\t", "\n"}
\* regex \w, the class \b is defined by
IsWordChar(c) ==
    \/ IsDigit(c)
    \/ \E k \in 1..26 : LowerChars[k] = c \/ UpperChars[k] = c
    \/ c = "_"

\* str.lower() on one character
LowerChar(c) ==
    IF \E k \in 1..26 : UpperChars[k] = c
    THEN LowerChars[CHOOSE k \in 1..26 : UpperChars[k] = c]
    ELSE c

\* tiempo_str.lower().replace(" ", "")
IsNotBlank(c) == c # " "
Normalize(str) == SelectSeq([k \in 1..Len(str) |-> LowerChar(str[k])], IsNotBlank)

\* int(v) of a run of digits
RECURSIVE IntOf(_)
IntOf(digs) ==
    IF digs = <<>> THEN 0
    ELSE IntOf(SubSeq(digs, 1, Len(digs) - 1)) * 10 + DigitValue(digs[Len(digs)])

(***************************************************************************)
(* re.findall(rf"(\d+)\s*{key}\b", s)                                      *)
(***************************************************************************)
RECURSIVE DigitsEnd(_, _)
DigitsEnd(s, p) ==
    IF p <= Len(s) /\ IsDigit(s[p]) THEN DigitsEnd(s, p + 1) ELSE p

RECURSIVE SpacesEnd(_, _)
SpacesEnd(s, p) ==
    IF p <= Len(s) /\ IsSpaceChar(s[p]) THEN SpacesEnd(s, p + 1) ELSE p

KeyAt(s, p, key) ==
    /\ p + Len(key) - 1 <= Len(s)
    /\ \A k \in 1..Len(key) : s[p + k - 1] = key[k]

\* \b before position p: exactly one of s[p-1], s[p] is a word character
WordBoundary(s, p) ==
    LET before == p > 1 /\ p - 1 <= Len(s) /\ IsWordChar(s[p - 1])
        after  == p >= 1 /\ p <= Len(s) /\ IsWordChar(s[p])
    IN  before # after

\* The position after a match of the pattern that starts at p, or 0.  The
\* greedy \d+ and \s* never need to give characters back: the character
\* after either run is neither a digit nor a space, and a key starts with a
\* letter.
MatchEnd(s, key, p) ==
    LET d == DigitsEnd(s, p)
        w == SpacesEnd(s, d)
        e == w + Len(key)
    IN  IF d > p /\ KeyAt(s, w, key) /\ WordBoundary(s, e) THEN e ELSE 0

\* the captured quantities, left to right, non-overlapping
RECURSIVE FindAll(_, _, _)
FindAll(s, key, p) ==
    IF p > Len(s) THEN <<>>
    ELSE LET e == MatchEnd(s, key, p)
         IN  IF e > 0
             THEN <<IntOf(SubSeq(s, p, DigitsEnd(s, p) - 1))>> \o FindAll(s, key, e)
             ELSE FindAll(s, key, p + 1)

patterns ==
    << [key |-> <<"h", "r">>,      mult |-> 3600],
       [key |-> <<"h">>,           mult |-> 3600],
       [key |-> <<"m", "i", "n">>, mult |-> 60],
       [key |-> <<"m">>,           mult |-> 60] >>

RECURSIVE SumSeq(_)
SumSeq(q) == IF q = <<>> THEN 0 ELSE q[1] + SumSeq(Tail(q))

\* seconds contributed by one pattern: the inner for loop
PatternSeconds(s, pat) == SumSeq(FindAll(s, pat.key, 1)) * pat.mult

\* total_seconds after the outer for loop
TotalOf(str) ==
    LET s == Normalize(str)
    IN  SumSeq([k \in 1..Len(patterns) |-> PatternSeconds(s, patterns[k])])

\* _parse_tiempo without its check of the total (lines 63-64 dropped)
_parse_tiempo_unchecked(str) == [raised |-> FALSE, value |-> TotalOf(str)]

\* the result of _parse_tiempo: raised (ValueError) or the value returned
_parse_tiempo(str) ==
    LET total == TotalOf(str)
    IN  IF total = 0
        THEN [raised |-> TRUE, value |-> 0]
        ELSE [raised |-> FALSE, value |-> total]

(***************************************************************************)
(* The clock and the random sources.                                       *)
(***************************************************************************)
RECURSIVE Factorial(_)
Factorial(n) == IF n <= 1 THEN 1 ELSE n * Factorial(n - 1)

\* an event count that does not divide the milliseconds of a minute
OddCantidad == 7

\* ticks per second: every cantidad of a run divides it
Scale == Factorial(MaxCantidad) * OddCantidad

\* seconds a slow file creation takes (a fast one takes none)
SlowCreate == 45
\* seconds time.sleep may return late
Oversleep == 1

CreateTicks == {0, SlowCreate * Scale}
OversleepTicks == {0, Oversleep * Scale}

\* random.randint(a, b), sampled at both ends of its range
randint(a, b) == {x \in {a, b} : a <= x /\ x <= b}

\* _random_size drawing from 0 instead of 1
_random_size_from_zero(max_size) ==
    IF max_size > 1 THEN randint(0, max_size) ELSE {1}

\* the values _random_size may return
_random_size(max_size) == IF max_size > 1 THEN randint(1, max_size) ELSE {1}

\* random.choice(seq), sampled at both ends of the sequence
choice(seq) == {seq[k] : k \in {1, Len(seq)}}

\* f"{elapsed:.3f}": the elapsed ticks as a number of milliseconds, rounded
Format3f(ticks) == (2 * 1000 * ticks + Scale) \div (2 * Scale)

Max(a, b) == IF a >= b THEN a ELSE b

\* the sleep with its test turned round: it never sleeps
SleepIfPositive_never(t, d) ==
    IF d < 0 THEN {t + d + o : o \in OversleepTicks} ELSE {t}

\* `if d > 0: time.sleep(d)` entered at clock t: the clock values it may
\* return at.  time.sleep never returns early; a signal handled during the
\* sleep does not shorten it.
SleepIfPositive(t, d) == IF d > 0 THEN {t + d + o : o \in OversleepTicks} ELSE {t}

\* an interval of half the length
Interval_half(total, n) ==
    Max(IF n > 0 THEN (total * Scale) \div (2 * n) ELSE total * Scale, 0)

\* interval, lines 91-92, in ticks
Interval(total, n) ==
    Max(IF n > 0 THEN (total * Scale) \div n ELSE total * Scale, 0)

\* the deadline of the iteration before
SleepUntil_previous(start, k, ival) == start + k * ival

\* sleep_until, line 114
SleepUntil(start, k, ival) == start + (k + 1) * ival

\* an idle wait of a whole period whatever has elapsed
Idle_full(total, elapsed_cycle) == Max(0, total * Scale)

\* idle, line 126, in ticks
Idle(total, elapsed_cycle) == Max(0, total * Scale - elapsed_cycle)

\* a logging call on a logger with n file handlers on the same file
Emit(log, row, n) == log \o [k \in 1..n |-> row]

(***************************************************************************)
(* The inputs run_simulator is called with.                                *)
(***************************************************************************)
Tiempos == { <<"1", "m">>, <<"a", "b", "c">> }
Cantidades == {-1, 0, 1, MaxCantidad, OddCantidad}

FormatError == "Formato invalido"
CountError == "cantidad must be > 0"

(***************************************************************************)
(* State.                                                                  *)
(***************************************************************************)
VARIABLES
    stop_requested,   \* the module global, line 14
    pc,               \* where run_simulator is
    tiempo, cantidad, loop,                 \* its arguments
    total_seconds, interval, start_cycle,   \* its locals
    i, range_pos,     \* the for loop's variable and its iterator's position
    size, ext, exc,   \* the attempt's locals; exc is the exception caught
    error,            \* the exception run_simulator ended with, or "none"
    now,              \* time.monotonic() in ticks, counted from the call
    dirs_exist,       \* <base_path>/input and <base_path>/logs
    logs_exist,       \* metrics.log and errors.log
    metrics_handlers, errors_handlers,   \* FileHandlers on the two loggers
    metrics_log,      \* the rows of metrics.log: "header" or "event"
    errors_log,       \* the rows of errors.log
    input_files,      \* number of files written to the input folder
    \* what the iteration in progress has produced
    last_file,        \* the file it wrote: extension and size
    last_row,         \* the fields of the Event record it emitted
    last_error,       \* the fields of the Error record it emitted
    \* history of the current run
    runs, cycles,     \* run_simulator calls so far; cycles begun in this run
    all_cycles,       \* cycles begun by the process
    attempts,         \* creation attempts begun by the process
    prev_start,       \* start_cycle of the cycle before, -1 in the first
    cyc_events, cyc_errors, cyc_created,  \* records emitted and files
                                          \* created in the current cycle
    cyc_failures,     \* exceptions raised by the attempts of this cycle
    delays,           \* slow creations and late wake-ups so far in this run
    sig               \* what the run was doing when the flag was first set

frame_vars ==
    <<pc, tiempo, cantidad, loop, total_seconds, interval, start_cycle, i,
      range_pos, size, ext, exc, error>>
clock_vars == <<now, delays>>
fs_vars ==
    <<dirs_exist, logs_exist, metrics_handlers, errors_handlers, metrics_log,
      errors_log, input_files>>
iter_vars == <<last_file, last_row, last_error>>
prog_vars == <<frame_vars, now, fs_vars, iter_vars>>
hist_vars ==
    <<runs, cycles, all_cycles, attempts, prev_start, cyc_events, cyc_errors,
      cyc_created, cyc_failures, delays>>
vars == <<stop_requested, prog_vars, hist_vars, sig>>

args == <<tiempo, cantidad, loop>>
locals == <<total_seconds, interval, start_cycle, i, range_pos, size, ext, exc>>
cyc_vars == <<cyc_events, cyc_errors, cyc_created, cyc_failures>>

\* timing disturbances (a slow creation, a late wake-up) one run may meet
MaxDelays == 1

NoRow == [ext |-> "", size |-> 0, elapsed_ms |-> -1]
NoFile == [ext |-> "", size |-> 0]
NoError == [index |-> -1, description |-> ""]
NoSig == [cycle |-> 0, pc |-> "none", records |-> 0, created |-> 0]
OldSig == [cycle |-> 0, pc |-> "earlier", records |-> 0, created |-> 0]

\* the frame's locals before anything is assigned to them
FreshLocals ==
    /\ total_seconds' = 0 /\ interval' = 0 /\ start_cycle' = 0
    /\ i' = -1 /\ range_pos' = 0
    /\ size' = 0 /\ ext' = "" /\ exc' = "none"

\* nothing produced by an iteration in progress
NoIteration ==
    /\ last_file' = NoFile /\ last_row' = NoRow /\ last_error' = NoError

Init ==
    /\ stop_requested = FALSE
    /\ pc = "idle"
    /\ tiempo = <<>> /\ cantidad = 0 /\ loop = FALSE
    /\ total_seconds = 0 /\ interval = 0 /\ start_cycle = 0
    /\ i = -1 /\ range_pos = 0
    /\ size = 0 /\ ext = "" /\ exc = "none"
    /\ error = "none"
    /\ now = 0
    /\ dirs_exist = FALSE /\ logs_exist = FALSE
    /\ metrics_handlers = 0 /\ errors_handlers = 0
    /\ metrics_log = <<>> /\ errors_log = <<>>
    /\ input_files = 0
    /\ last_file = NoFile /\ last_row = NoRow /\ last_error = NoError
    /\ runs = 0 /\ cycles = 0 /\ all_cycles = 0 /\ attempts = 0
    /\ prev_start = -1
    /\ cyc_events = 0 /\ cyc_errors = 0 /\ cyc_created = 0
    /\ cyc_failures = 0
    /\ delays = 0
    /\ sig = NoSig

\* a handler that flips the flag instead of setting it
_handle_signal_toggle ==
    /\ stop_requested' = ~stop_requested
    /\ sig' = IF stop_requested THEN sig
              ELSE [cycle |-> cycles, pc |-> pc,
                    records |-> cyc_events + cyc_errors,
                    created |-> cyc_created]
    /\ UNCHANGED <<prog_vars, hist_vars>>

(***************************************************************************)
(* The signal handler, lines 17-19.                                        *)
(***************************************************************************)
_handle_signal ==
    /\ stop_requested' = TRUE
    /\ sig' = IF stop_requested THEN sig
              ELSE [cycle |-> cycles, pc |-> pc,
                    records |-> cyc_events + cyc_errors,
                    created |-> cyc_created]
    /\ UNCHANGED <<prog_vars, hist_vars>>

(***************************************************************************)
(* run_simulator, lines 83-128.                                            *)
(***************************************************************************)
\* a call that clears the flag on entry
Call_resets ==
    /\ pc \in {"idle", "returned", "raised"}
    /\ runs < MaxRuns
    /\ \E t \in Tiempos, n \in Cantidades, l \in BOOLEAN :
          /\ tiempo' = t /\ cantidad' = n /\ loop' = l
    /\ FreshLocals
    /\ error' = "none"
    /\ now' = 0 /\ delays' = 0
    /\ runs' = runs + 1 /\ cycles' = 0 /\ prev_start' = -1
    /\ cyc_events' = 0 /\ cyc_errors' = 0 /\ cyc_created' = 0
    /\ cyc_failures' = 0
    /\ sig' = IF stop_requested THEN OldSig ELSE NoSig
    /\ stop_requested' = FALSE
    /\ pc' = "ensure_dirs"
    /\ UNCHANGED <<fs_vars, iter_vars, all_cycles, attempts>>

\* main() or another caller enters run_simulator
Call ==
    /\ pc \in {"idle", "returned", "raised"}
    /\ runs < MaxRuns
    /\ \E t \in Tiempos, n \in Cantidades, l \in BOOLEAN :
          /\ tiempo' = t /\ cantidad' = n /\ loop' = l
    /\ FreshLocals
    /\ error' = "none"
    /\ now' = 0 /\ delays' = 0
    /\ runs' = runs + 1 /\ cycles' = 0 /\ prev_start' = -1
    /\ cyc_events' = 0 /\ cyc_errors' = 0 /\ cyc_created' = 0
    /\ cyc_failures' = 0
    /\ sig' = IF stop_requested THEN OldSig ELSE NoSig
    /\ pc' = "ensure_dirs"
    /\ UNCHANGED <<stop_requested, fs_vars, iter_vars, all_cycles, attempts>>

\* line 84
_ensure_dirs ==
    /\ pc = "ensure_dirs"
    /\ dirs_exist' = TRUE
    /\ pc' = "setup_logging"
    /\ UNCHANGED <<stop_requested, args, locals, error, now, logs_exist,
                   metrics_handlers, errors_handlers, metrics_log, errors_log,
                   input_files, iter_vars, hist_vars, sig>>

\* the rows of metrics.log once _setup_logging has run: the header goes to
\* an empty file, through every handler the logger has by then
HeaderIfEmpty(log, exists, n) ==
    IF ~exists \/ Len(log) = 0 THEN Emit(log, "header", n) ELSE log

\* line 85: each FileHandler opens its file for appending and is added to
\* the process-wide logger
_setup_logging ==
    /\ pc = "setup_logging"
    /\ logs_exist' = TRUE
    /\ metrics_handlers' = metrics_handlers + 1
    /\ errors_handlers' = errors_handlers + 1
    /\ metrics_log' = HeaderIfEmpty(metrics_log, logs_exist, metrics_handlers')
    /\ pc' = "parse"
    /\ UNCHANGED <<stop_requested, args, locals, error, now, dirs_exist,
                   errors_log, input_files, iter_vars, hist_vars, sig>>

\* the frame is left: by return, or by an exception
Leave(how, err) ==
    /\ pc' = how
    /\ error' = err
    /\ FreshLocals
    /\ NoIteration

\* a call that goes on with whatever total the parser produced
ParseTiempo_lenient ==
    /\ pc = "parse"
    /\ total_seconds' = _parse_tiempo(tiempo).value
    /\ pc' = "check_cantidad"
    /\ UNCHANGED <<interval, start_cycle, i, range_pos, size, ext, exc, error,
                   iter_vars>>
    /\ UNCHANGED <<stop_requested, args, now, fs_vars, hist_vars, sig>>

\* line 86
ParseTiempo ==
    /\ pc = "parse"
    /\ LET r == _parse_tiempo(tiempo)
       IN  \/ /\ r.raised
              /\ Leave("raised", FormatError)
           \/ /\ ~r.raised
              /\ total_seconds' = r.value
              /\ pc' = "check_cantidad"
              /\ UNCHANGED <<interval, start_cycle, i, range_pos, size, ext,
                             exc, error, iter_vars>>
    /\ UNCHANGED <<stop_requested, args, now, fs_vars, hist_vars, sig>>

\* the count test letting 0 through
InvalidCount_negative(n) == n < 0

\* `if cantidad <= 0`, line 88
InvalidCount(n) == n <= 0

\* lines 88-92
CheckCantidad ==
    /\ pc = "check_cantidad"
    /\ \/ /\ InvalidCount(cantidad)
          /\ Leave("raised", CountError)
       \/ /\ ~InvalidCount(cantidad)
          /\ interval' = Interval(total_seconds, cantidad)
          /\ pc' = "while"
          /\ UNCHANGED <<total_seconds, start_cycle, i, range_pos, size, ext,
                         exc, error, iter_vars>>
    /\ UNCHANGED <<stop_requested, args, now, fs_vars, hist_vars, sig>>

\* lines 94-97: a cycle begins
CycleStart ==
    /\ pc = "while"
    \* the cap on cycles; a cycle begun with the flag set ends at its first
    \* checkpoint and is always let through
    /\ all_cycles < MaxCycles \/ stop_requested
    /\ all_cycles' = all_cycles + 1
    /\ start_cycle' = now
    /\ prev_start' = IF cycles = 0 THEN -1 ELSE start_cycle
    /\ range_pos' = 0
    /\ cycles' = cycles + 1
    /\ cyc_events' = 0 /\ cyc_errors' = 0 /\ cyc_created' = 0
    /\ cyc_failures' = 0
    /\ pc' = "for"
    /\ UNCHANGED <<stop_requested, args, total_seconds, interval, i, size, ext,
                   exc, error, now, fs_vars, iter_vars, runs, attempts, delays,
                   sig>>

\* a range that is one short
RangeDone_early(pos, n) == pos + 1 >= n

\* `for i in range(cantidad)`, line 97: the iterator is exhausted
RangeDone(pos, n) == pos >= n

\* no checkpoint at the top of the body
StopAtTop_never == FALSE

\* the checkpoint at the top of the body reading the flag the wrong way
StopAtTop_inverted == ~stop_requested

\* `if stop_requested`, line 98: the checkpoint at the top of the body
StopAtTop == stop_requested

\* `if stop_requested`, line 119: the checkpoint at the bottom of the body
StopAtBottom == stop_requested

\* the break taken in repeat mode instead
BreakAfterCycle_inverted(l) == l

\* `if not loop: break`, line 122
BreakAfterCycle(l) == ~l

\* lines 97-99: the next index, and the checkpoint at the top of the body
ForNext ==
    /\ pc = "for"
    /\ \/ /\ RangeDone(range_pos, cantidad)
          /\ pc' = "endfor"
          /\ UNCHANGED <<locals, error, iter_vars, attempts>>
       \/ /\ ~RangeDone(range_pos, cantidad)
          /\ StopAtTop
          /\ Leave("returned", "none")
          /\ UNCHANGED attempts
       \/ /\ ~RangeDone(range_pos, cantidad)
          /\ ~StopAtTop
          /\ attempts < MaxAttempts
          /\ attempts' = attempts + 1
          /\ i' = range_pos
          /\ range_pos' = range_pos + 1
          /\ pc' = "try"
          /\ UNCHANGED <<total_seconds, interval, start_cycle, size, ext, exc,
                         error, iter_vars>>
    /\ UNCHANGED <<stop_requested, args, now, fs_vars, runs, cycles,
                   all_cycles, prev_start, cyc_vars, delays, sig>>

\* lines 101-102: the simulated failure is raised, or the attempt goes on
TryBegin ==
    /\ pc = "try"
    /\ \/ /\ exc' = "Error simulado"
          /\ cyc_failures' = cyc_failures + 1
          /\ pc' = "except"
       \/ /\ pc' = "create"
          /\ UNCHANGED <<exc, cyc_failures>>
    /\ UNCHANGED <<stop_requested, args, total_seconds, interval, start_cycle,
                   i, range_pos, size, ext, error, now, fs_vars, iter_vars,
                   runs, cycles, all_cycles, attempts, prev_start, cyc_events,
                   cyc_errors, cyc_created, delays, sig>>

\* the clock moves on to one of the values in `times`; any but the
\* earliest is a timing disturbance
ClockTo(times) ==
    \E t \in times :
        LET due == CHOOSE m \in times : \A x \in times : m <= x
        IN  /\ t = due \/ delays < MaxDelays
            /\ now' = t
            /\ delays' = IF t = due THEN delays ELSE delays + 1

\* the Event record of lines 107-109
EventRow(e, sz, elapsed) ==
    [ext |-> e, size |-> sz, elapsed_ms |-> Format3f(elapsed)]

\* lines 104-109: the size and the extension are drawn, _create_file
\* (lines 72-80) writes the file and the Event record is emitted; or the
\* operating system refuses, nothing is left behind and OSError is raised
CreateFile ==
    /\ pc = "create"
    /\ size' \in _random_size(MAX_SIZE)
    /\ ext' \in choice(EXTENSIONS)
    /\ ClockTo({now + d : d \in CreateTicks})
    /\ \/ /\ input_files' = input_files + 1
          /\ last_file' = [ext |-> ext', size |-> size']
          /\ cyc_created' = cyc_created + 1
          /\ last_row' = EventRow(ext', size', now' - start_cycle)
          /\ metrics_log' = Emit(metrics_log, "event", metrics_handlers)
          /\ cyc_events' = cyc_events + 1
          /\ pc' = "pace"
          /\ UNCHANGED <<exc, cyc_failures>>
       \/ /\ exc' = "OSError"
          /\ cyc_failures' = cyc_failures + 1
          /\ pc' = "except"
          /\ UNCHANGED <<input_files, last_file, cyc_created, last_row,
                         metrics_log, cyc_events>>
    /\ UNCHANGED <<stop_requested, args, total_seconds, interval, start_cycle,
                   i, range_pos, error, dirs_exist, logs_exist,
                   metrics_handlers, errors_handlers, errors_log, last_error,
                   runs, cycles, all_cycles, attempts, prev_start, cyc_errors, sig>>

\* the Error record tagged with the next index
ErrorRow_next(index, e) == [index |-> index + 1, description |-> e]

\* the Error record of lines 111-112
ErrorRow(index, e) == [index |-> index, description |-> e]

\* a handler that reports the exception and tries the same index again
LogError_retry ==
    /\ pc = "except"
    /\ last_error' = ErrorRow(i, exc)
    /\ errors_log' = Emit(errors_log, "error_creating_file", errors_handlers)
    /\ cyc_errors' = cyc_errors + 1
    /\ exc' = "none"
    /\ pc' = "try"
    /\ UNCHANGED <<stop_requested, args, total_seconds, interval, start_cycle,
                   i, range_pos, size, ext, error, now, dirs_exist, logs_exist,
                   metrics_handlers, errors_handlers, metrics_log, input_files,
                   last_file, last_row, runs, cycles, all_cycles, attempts,
                   prev_start, cyc_events, cyc_created, cyc_failures, delays,
                   sig>>

\* lines 110-112: the exception is caught and reported
LogError ==
    /\ pc = "except"
    /\ last_error' = ErrorRow(i, exc)
    /\ errors_log' = Emit(errors_log, "error_creating_file", errors_handlers)
    /\ cyc_errors' = cyc_errors + 1
    /\ exc' = "none"
    /\ pc' = "pace"
    /\ UNCHANGED <<stop_requested, args, total_seconds, interval, start_cycle,
                   i, range_pos, size, ext, error, now, dirs_exist, logs_exist,
                   metrics_handlers, errors_handlers, metrics_log, input_files,
                   last_file, last_row, runs, cycles, all_cycles, attempts,
                   prev_start, cyc_events, cyc_created, cyc_failures, delays,
                   sig>>

\* lines 114-117: the pacing sleep ends the iteration's work
Pace ==
    /\ pc = "pace"
    /\ LET sleep_until == SleepUntil(start_cycle, i, interval)
           to_sleep == sleep_until - now
       IN  ClockTo(SleepIfPositive(now, to_sleep))
    /\ size' = 0 /\ ext' = ""
    /\ NoIteration
    /\ pc' = "recheck"
    /\ UNCHANGED <<stop_requested, args, total_seconds, interval, start_cycle,
                   i, range_pos, exc, error, fs_vars, runs, cycles, all_cycles,
                   attempts, prev_start, cyc_vars, sig>>

\* lines 119-120: the checkpoint at the bottom of the body
Recheck ==
    /\ pc = "recheck"
    /\ \/ /\ StopAtBottom
          /\ Leave("returned", "none")
       \/ /\ ~StopAtBottom
          /\ pc' = "for"
          /\ UNCHANGED <<locals, error, iter_vars>>
    /\ UNCHANGED <<stop_requested, args, now, fs_vars, hist_vars, sig>>

\* lines 122-123
EndCycle ==
    /\ pc = "endfor"
    /\ \/ /\ BreakAfterCycle(loop)
          /\ Leave("returned", "none")
       \/ /\ ~BreakAfterCycle(loop)
          /\ pc' = "idle_wait"
          /\ UNCHANGED <<locals, error, iter_vars>>
    /\ UNCHANGED <<stop_requested, args, now, fs_vars, hist_vars, sig>>

\* an idle wait that reads the flag and returns when it is set
IdleWait_observes ==
    /\ pc = "idle_wait"
    /\ \/ /\ stop_requested
          /\ Leave("returned", "none")
          /\ UNCHANGED <<now, delays>>
       \/ /\ ~stop_requested
          /\ LET elapsed_cycle == now - start_cycle
                 idle == Idle(total_seconds, elapsed_cycle)
             IN  ClockTo(SleepIfPositive(now, idle))
          /\ pc' = "while"
          /\ UNCHANGED <<locals, error, iter_vars>>
    /\ UNCHANGED <<stop_requested, args, fs_vars, runs, cycles, all_cycles,
                   attempts, prev_start, cyc_vars, sig>>

\* lines 125-128: the idle wait, then back to line 94
IdleWait ==
    /\ pc = "idle_wait"
    /\ LET elapsed_cycle == now - start_cycle
           idle == Idle(total_seconds, elapsed_cycle)
       IN  ClockTo(SleepIfPositive(now, idle))
    /\ pc' = "while"
    /\ UNCHANGED <<stop_requested, args, locals, error, fs_vars, iter_vars,
                   runs, cycles, all_cycles, attempts, prev_start, cyc_vars, sig>>

Next ==
    \/ _handle_signal
    \/ Call
    \/ _ensure_dirs
    \/ _setup_logging
    \/ ParseTiempo
    \/ CheckCantidad
    \/ CycleStart
    \/ ForNext
    \/ TryBegin
    \/ CreateFile
    \/ LogError
    \/ Pace
    \/ Recheck
    \/ EndCycle
    \/ IdleWait

Spec == Init /\ [][Next]_vars

(***************************************************************************)
(* One run from line 88 on: the first call of the process has set up the   *)
(* directories and the sinks and has parsed a valid duration (lines 84-86  *)
(* read no flag and do not wait).  Every statement, creation attempt and   *)
(* sleep of the run finishes.                                              *)
(***************************************************************************)
InitRun ==
    /\ stop_requested = FALSE
    /\ pc = "check_cantidad"
    /\ tiempo = <<"1", "m">> /\ cantidad \in Cantidades /\ loop \in BOOLEAN
    /\ total_seconds = _parse_tiempo(tiempo).value
    /\ interval = 0 /\ start_cycle = 0
    /\ i = -1 /\ range_pos = 0
    /\ size = 0 /\ ext = "" /\ exc = "none"
    /\ error = "none"
    /\ now = 0
    /\ dirs_exist = TRUE /\ logs_exist = TRUE
    /\ metrics_handlers = 1 /\ errors_handlers = 1
    /\ metrics_log = <<"header">> /\ errors_log = <<>>
    /\ input_files = 0
    /\ last_file = NoFile /\ last_row = NoRow /\ last_error = NoError
    /\ runs = 1 /\ cycles = 0 /\ all_cycles = 0 /\ attempts = 0
    /\ prev_start = -1
    /\ cyc_events = 0 /\ cyc_errors = 0 /\ cyc_created = 0
    /\ cyc_failures = 0
    /\ delays = 0
    /\ sig = NoSig

\* the statements of run_simulator from line 88 on
RunStep ==
    \/ CheckCantidad
    \/ CycleStart
    \/ ForNext
    \/ TryBegin
    \/ CreateFile
    \/ LogError
    \/ Pace
    \/ Recheck
    \/ EndCycle
    \/ IdleWait

NextRun == _handle_signal \/ RunStep

SpecLive == InitRun /\ [][NextRun]_vars /\ WF_vars(RunStep)

(***************************************************************************)
(* The parser on its own: run_simulator has reached line 86 with any       *)
(* duration expression of up to MaxLen characters.                         *)
(***************************************************************************)
Alphabet == {"0", "1", "h", "r", "m", "i", "n", "H", " ", "\t", ","}
Expressions == UNION {[1..n -> Alphabet] : n \in 0..MaxLen}

InitParse ==
    /\ stop_requested = FALSE
    /\ pc = "parse"
    /\ tiempo \in Expressions /\ cantidad = 1 /\ loop = FALSE
    /\ total_seconds = 0 /\ interval = 0 /\ start_cycle = 0
    /\ i = -1 /\ range_pos = 0
    /\ size = 0 /\ ext = "" /\ exc = "none"
    /\ error = "none"
    /\ now = 0
    /\ dirs_exist = TRUE /\ logs_exist = TRUE
    /\ metrics_handlers = 1 /\ errors_handlers = 1
    /\ metrics_log = <<"header">> /\ errors_log = <<>>
    /\ input_files = 0
    /\ last_file = NoFile /\ last_row = NoRow /\ last_error = NoError
    /\ runs = 1 /\ cycles = 0 /\ all_cycles = 0 /\ attempts = 0
    /\ prev_start = -1
    /\ cyc_events = 0 /\ cyc_errors = 0 /\ cyc_created = 0
    /\ cyc_failures = 0
    /\ delays = 0
    /\ sig = NoSig

NextParse == ParseTiempo

SpecParse == InitParse /\ [][NextParse]_vars

(***************************************************************************)
(* What a duration expression says, read off its text.                     *)
(***************************************************************************)
HourUnits == { <<"h">>, <<"h", "r">> }
MinuteUnits == { <<"m">>, <<"m", "i", "n">> }

IsLetter(c) == \E k \in 1..26 : LowerChars[k] = c \/ UpperChars[k] = c

RECURSIVE LettersEnd(_, _)
LettersEnd(s, p) ==
    IF p <= Len(s) /\ IsLetter(s[p]) THEN LettersEnd(s, p + 1) ELSE p

RECURSIVE BlanksEnd(_, _)
BlanksEnd(s, p) == IF p <= Len(s) /\ s[p] = " " THEN BlanksEnd(s, p + 1) ELSE p

\* The seconds written in s from position p on, when the text from p is
\* tokens only, each a number and then h, hr, m or min, with nothing but
\* blanks between them; -1 when it is anything else.
RECURSIVE WrittenSeconds(_, _)
WrittenSeconds(s, p) ==
    LET d == DigitsEnd(s, p)
        u == LettersEnd(s, d)
        unit == SubSeq(s, d, u - 1)
        mult == IF unit \in HourUnits THEN 3600
                ELSE IF unit \in MinuteUnits THEN 60 ELSE 0
        q == BlanksEnd(s, u)
        rest == IF u > Len(s) THEN 0
                ELSE IF q > Len(s) THEN -1 ELSE WrittenSeconds(s, q)
    IN  IF d = p \/ mult = 0 \/ rest < 0 THEN -1
        ELSE IntOf(SubSeq(s, p, d - 1)) * mult + rest

\* s holds a number directly followed (blanks apart) by h or m, in either case
HasUnitAfterNumber(s) ==
    \E a \in 1..Len(s), b \in 1..Len(s) :
        /\ a < b
        /\ IsDigit(s[a])
        /\ LowerChar(s[b]) \in {"h", "m"}
        /\ \A k \in (a + 1)..(b - 1) : IsSpaceChar(s[k])

\* s holds a token the scan recognizes, with a quantity that is not zero: a
\* run of digits a..b, not all of them 0, then the unit, then (blanks
\* apart) the end of the text or a character that is not a word character
HasDelimitedToken(s) ==
    \E a \in 1..Len(s), b \in 1..Len(s), pat \in {patterns[k] : k \in 1..Len(patterns)} :
        /\ a <= b
        /\ \A k \in a..b : IsDigit(s[k])
        /\ \E k \in a..b : s[k] # "0"
        /\ LET w == SpacesEnd(s, b + 1)
               e == w + Len(pat.key)
               f == BlanksEnd(s, e)
           IN  /\ e - 1 <= Len(s)
               /\ \A k \in 1..Len(pat.key) : LowerChar(s[w + k - 1]) = pat.key[k]
               /\ f > Len(s) \/ ~IsWordChar(s[f])

(***************************************************************************)
(* C1.  For every expression made only of hour tokens (<n>h, <n>hr) and    *)
(* minute tokens (<n>m, <n>min), in any order, with or without blanks      *)
(* between the tokens, _parse_tiempo returns the sum of quantity x 3600    *)
(* over the hour tokens plus quantity x 60 over the minute tokens.         *)
(* Violated: the blanks are deleted before the scan and the pattern ends   *)
(* in \b, so a token followed by another token is not matched.             *)
(***************************************************************************)
C1_ParseSumsTokens ==
    (pc # "parse" /\ WrittenSeconds(tiempo, 1) > 0)
        => (pc = "check_cantidad" /\ total_seconds = WrittenSeconds(tiempo, 1))

(***************************************************************************)
(* C6.  _parse_tiempo returns a strictly positive integer or fails with    *)
(* the invalid-format error; it fails on every text with no unit after a   *)
(* number; and text that matches no token causes no failure when a token   *)
(* with a quantity that is not zero is recognized.                         *)
(***************************************************************************)
C6_PositiveOrInvalidFormat ==
    pc # "parse" =>
        /\ pc \in {"check_cantidad", "raised"}
        /\ pc = "check_cantidad" => total_seconds > 0
        /\ pc = "raised" => error = FormatError /\ total_seconds = 0
        /\ ~HasUnitAfterNumber(tiempo) => pc = "raised"
        /\ HasDelimitedToken(tiempo) => pc = "check_cantidad"

\* a token is recognized among text that matches nothing
C6_Witness ==
    /\ pc = "check_cantidad"
    /\ total_seconds = 60
    /\ tiempo = <<"r", ",", "1", "m">>

(***************************************************************************)
(* Positions of run_simulator.                                             *)
(***************************************************************************)
\* before the first cycle
BeforeCycles ==
    {"idle", "ensure_dirs", "setup_logging", "parse", "check_cantidad"}
\* inside the while loop
InCycles ==
    {"while", "for", "try", "create", "except", "pace", "recheck", "endfor",
     "idle_wait"}
\* where the run is when no attempt is in flight and at least one is over
AfterAttempt ==
    {"pace", "recheck", "for", "try", "endfor", "idle_wait", "while"}

\* the flag was first set in this run, after sig.records attempts of the
\* cycle sig.cycle were over and before another one had begun
SetAfterAttempt ==
    stop_requested /\ sig.pc \in AfterAttempt /\ sig.records >= 1

(***************************************************************************)
(* C2.  If the stop signal is set after the k-th event of a cycle has      *)
(* been attempted, the run ends with at most k+1 Event and Error records   *)
(* emitted in that cycle, and no artifact is created after the signal.     *)
(* As stated this is violated: a signal that arrives after the checkpoint  *)
(* of line 98 was passed and before the attempt began is not seen until    *)
(* line 119, after one more attempt.                                       *)
(***************************************************************************)
C2_Original ==
    SetAfterAttempt =>
        IF cycles = sig.cycle
        THEN /\ cyc_events + cyc_errors <= sig.records
             /\ cyc_created = sig.created
        ELSE cyc_events + cyc_errors = 0 /\ cyc_created = 0

\* C2 as amended: at most one more attempt runs, and only when the signal
\* arrived after that attempt's checkpoint at the top of the body had been
\* passed; otherwise no record is emitted and no artifact is created after
\* the signal; a later cycle attempts nothing.
C2_AtMostOneMoreAttempt ==
    SetAfterAttempt =>
        LET late == IF sig.pc = "try" THEN 1 ELSE 0
        IN  IF cycles = sig.cycle
            THEN /\ cyc_events + cyc_errors <= sig.records + late
                 /\ cyc_created <= sig.created + late
            ELSE cyc_events + cyc_errors = 0 /\ cyc_created = 0

\* the signal came between the checkpoint and the attempt, which still ran
C2_Witness ==
    /\ SetAfterAttempt
    /\ sig.pc = "try"
    /\ pc = "returned"
    /\ cyc_events + cyc_errors = sig.records + 1
    /\ cyc_created = sig.created + 1

(***************************************************************************)
(* C3.  run_simulator called with an event count <= 0 and a valid          *)
(* duration fails with the invalid-count error before any artifact is      *)
(* created and before any sink is touched.  As stated this is violated:    *)
(* lines 84-85 run before line 88.                                         *)
(***************************************************************************)
C3_Original ==
    (pc = "raised" /\ error = CountError) =>
        /\ cyc_created = 0
        /\ ~logs_exist
        /\ metrics_handlers = 0 /\ errors_handlers = 0
        /\ metrics_log = <<>> /\ errors_log = <<>>

\* C3 as amended: the run fails with the invalid-count error before any
\* cycle begins, any artifact is created or any Event or Error record is
\* emitted, but after the sinks were set up: the directories exist, both
\* log files are open on a handler and metrics.log starts with the header.
C3_InvalidCountAfterSetup ==
    /\ cantidad <= 0 => pc \in BeforeCycles \cup {"raised"}
    /\ (pc = "raised" /\ error = CountError) =>
          /\ cantidad <= 0
          /\ cycles = 0
          /\ cyc_created = 0 /\ cyc_events = 0 /\ cyc_errors = 0
          /\ dirs_exist /\ logs_exist
          /\ metrics_handlers >= 1 /\ errors_handlers >= 1
          /\ Len(metrics_log) >= 1 /\ metrics_log[1] = "header"

C3_Witness ==
    /\ pc = "raised" /\ error = CountError
    /\ cantidad = 0
    /\ runs = 1
    /\ metrics_log = <<"header">>

(***************************************************************************)
(* C4.  In a single non-repeating run with event count N, in which the     *)
(* stop signal is never set and no attempt fails, exactly N Event records  *)
(* and no Error record have been emitted when run_simulator returns.       *)
(***************************************************************************)
C4_ExactlyNEvents ==
    (pc = "returned" /\ ~loop /\ ~stop_requested /\ cyc_failures = 0) =>
        /\ cycles = 1
        /\ cyc_events = cantidad
        /\ cyc_errors = 0

C4_Witness ==
    /\ pc = "returned" /\ ~loop /\ ~stop_requested /\ cyc_failures = 0
    /\ cantidad = 2 /\ cyc_events = 2

(***************************************************************************)
(* C5.  Every failure of an attempt, simulated or real, is absorbed: one   *)
(* Error record tagged with the failing index is emitted, the loop goes    *)
(* on to the pacing sleep and to the next index, run_simulator never ends  *)
(* with an error once a cycle has begun, and a cycle of N failing          *)
(* attempts completes with N Error records.                                *)
(***************************************************************************)
C5_FailuresAbsorbed ==
    /\ pc = "raised" => cycles = 0
    /\ pc = "except" => cyc_failures = cyc_errors + 1 /\ last_error = NoError
    /\ pc # "except" => cyc_failures = cyc_errors
    /\ pc = "pace" => (last_error = NoError) # (last_row = NoRow)
    /\ (pc = "pace" /\ last_error # NoError) =>
          last_error.index = i /\ last_error.description # "none"
    /\ pc \in {"pace", "recheck"} => range_pos = i + 1
    /\ pc = "endfor" => cyc_events + cyc_errors = cantidad

\* a cycle in which every attempt failed has completed
C5_Witness ==
    /\ pc = "endfor"
    /\ cantidad = 2
    /\ cyc_failures = 2 /\ cyc_errors = 2 /\ cyc_events = 0

(***************************************************************************)
(* C7.  With repeat false and no stop signal run_simulator executes        *)
(* exactly one cycle and returns.  With repeat true it returns only by     *)
(* seeing the stop flag at a checkpoint, and the end of a cycle is always  *)
(* followed by the idle wait and the start of the next cycle.              *)
(***************************************************************************)
C7_Returns ==
    /\ ~loop => cycles <= 1
    /\ (pc = "returned" /\ ~loop /\ ~stop_requested) => cycles = 1
    /\ (pc = "returned" /\ loop) => stop_requested

C7_Continues ==
    /\ (pc = "endfor" /\ loop /\ pc' # pc) => pc' = "idle_wait"
    /\ (pc = "idle_wait" /\ pc' # pc) => pc' = "while"
    /\ (pc = "while" /\ pc' # pc) => (pc' = "for" /\ cycles' = cycles + 1)

C7_OneCycleOrUntilStopped == []C7_Returns /\ [][C7_Continues]_vars

\* a repeating run that began a second cycle and returned at its checkpoint
C7_Witness ==
    /\ pc = "returned" /\ loop /\ stop_requested
    /\ cycles = 2

(***************************************************************************)
(* C8.  In repeat mode the start times of two consecutive cycles are       *)
(* never less than total_seconds apart.                                    *)
(***************************************************************************)
C8_CycleStartsSpaced ==
    (pc \in InCycles /\ prev_start >= 0) =>
        start_cycle - prev_start >= total_seconds * Scale

C8_Witness ==
    /\ pc = "for" /\ loop
    /\ cycles = 2
    /\ prev_start >= 0
    /\ start_cycle - prev_start = total_seconds * Scale

(***************************************************************************)
(* C9.  The stop flag is false at process start; once set it is never      *)
(* reset, by a new cycle or a new run; the handler changes nothing but     *)
(* the flag, and a later signal changes nothing at all.                    *)
(***************************************************************************)
C9_FlagStep ==
    /\ stop_requested => stop_requested'
    /\ stop_requested' # stop_requested => UNCHANGED prog_vars
    /\ (_handle_signal /\ stop_requested) => UNCHANGED vars

C9_FlagSetOnce == ~stop_requested /\ [][C9_FlagStep]_vars

\* the flag is still set in a run that was called after it was set
C9_Witness ==
    /\ stop_requested
    /\ runs = 2 /\ sig.pc = "earlier"
    /\ pc = "for"

(***************************************************************************)
(* C10.  Every artifact created has a size s with 1 <= s <= MAX_SIZE and   *)
(* a tag of EXTENSIONS, and the Event record that reports it carries the   *)
(* same size and tag.                                                      *)
(***************************************************************************)
C10_ArtifactSizeAndTag ==
    /\ last_file # NoFile =>
          /\ 1 <= last_file.size /\ last_file.size <= MAX_SIZE
          /\ \E k \in 1..Len(EXTENSIONS) : EXTENSIONS[k] = last_file.ext
          /\ last_row # NoRow
          /\ last_row.size = last_file.size
          /\ last_row.ext = last_file.ext
    /\ last_row # NoRow => last_file # NoFile

C10_Witness ==
    /\ pc = "pace"
    /\ last_file = [ext |-> ".cash", size |-> MAX_SIZE]
    /\ last_row.size = MAX_SIZE /\ last_row.ext = ".cash"

(***************************************************************************)
(* C11.  An attempt in flight when the stop flag is set runs to completion *)
(* and emits its record, and from the moment the flag is set no new        *)
(* attempt and no new sleep is started.  As stated this is violated: the   *)
(* flag is read at lines 98 and 119 only, so the pacing sleep of line 117  *)
(* is started after a flag set during the attempt.                         *)
(***************************************************************************)
\* a step that begins a creation attempt (line 100 is entered)
AttemptBegins == pc = "try" /\ pc' \in {"create", "except"}
\* a step in which time.sleep is called at line 117
PacingSleepBegins ==
    pc = "pace" /\ pc' = "recheck"
        /\ start_cycle + (i + 1) * interval - now > 0
\* a step that executes lines 125-128
IdleWaitBegins == pc = "idle_wait" /\ pc' = "while"
\* a step that ends an attempt with its record emitted
AttemptEnds ==
    pc' = "pace" /\ cyc_events' + cyc_errors' = cyc_events + cyc_errors + 1

C11_InFlightCompletes ==
    (stop_requested /\ pc \in {"try", "create", "except"} /\ pc' # pc) =>
        \/ pc = "try" /\ pc' = "create"
        \/ pc' = "except" /\ cyc_errors' = cyc_errors
        \/ AttemptEnds

C11_OriginalStep ==
    /\ C11_InFlightCompletes
    /\ stop_requested => ~AttemptBegins /\ ~PacingSleepBegins

C11_Original == [][C11_OriginalStep]_vars

\* the flag was first set in this run during the iteration now in
\* progress: after its checkpoint at line 98 and before its pacing sleep
SetInThisIteration ==
    /\ sig.cycle = cycles
    /\ \/ sig.pc \in {"try", "create", "except"}
             /\ sig.records = i
       \/ sig.pc = "pace" /\ sig.records = i + 1

\* the flag was first set in this run after the last checkpoint of this
\* cycle
SetAfterLastCheckpoint ==
    /\ sig.cycle = cycles
    /\ sig.pc \in {"for", "endfor", "idle_wait"}
    /\ sig.records = cantidad

\* C11 as amended: the attempt in flight completes and emits its record;
\* after the flag is set the run starts only what lies before its next
\* checkpoint: the attempt whose checkpoint at the top of the body had
\* been passed, the pacing sleep of the iteration in progress, and in
\* repeat mode the idle wait of a cycle whose last checkpoint had been
\* passed.
C11_Step ==
    /\ C11_InFlightCompletes
    /\ (stop_requested /\ AttemptBegins) =>
          sig.cycle = cycles /\ sig.pc = "try" /\ sig.records = i
    /\ (stop_requested /\ PacingSleepBegins) => SetInThisIteration
    /\ (stop_requested /\ IdleWaitBegins) => SetAfterLastCheckpoint

C11_OnlyUpToNextCheckpoint == [][C11_Step]_vars

\* the flag was set while the file was being created, and the pacing sleep
\* of that iteration has been slept in full
C11_Witness ==
    /\ stop_requested /\ pc = "recheck"
    /\ sig.cycle = cycles /\ sig.pc = "create" /\ sig.records = 0
    /\ i = 0 /\ cantidad = 2 /\ delays = 0
    /\ cyc_events = 1
    /\ now = start_cycle + 30 * Scale

(***************************************************************************)
(* C12.  In every cycle the iteration for event i does not finish before   *)
(* cycle_start + (i+1) x interval, so the attempt for event i+1 never      *)
(* begins before it; the elapsed time in the Event record of index i is at *)
(* least i x interval; a cycle that runs to completion lasts at least      *)
(* total_seconds.  As stated this is violated: the record carries the      *)
(* elapsed time rounded to the millisecond, which may round down.          *)
(***************************************************************************)
\* total_seconds / cantidad in ticks
ExactInterval == (total_seconds * Scale) \div cantidad

C12_PacedFromCycleStart ==
    /\ pc = "recheck" => now >= start_cycle + (i + 1) * ExactInterval
    /\ pc \in {"try", "create", "except", "pace"} =>
          now >= start_cycle + i * ExactInterval
    /\ pc \in {"endfor", "idle_wait"} =>
          now - start_cycle >= total_seconds * Scale

C12_Original ==
    /\ C12_PacedFromCycleStart
    /\ last_row # NoRow =>
          last_row.elapsed_ms * Scale >= 1000 * i * ExactInterval

\* C12 as amended: the elapsed time in the record is the elapsed time
\* rounded to the millisecond, so it is more than i x interval - 0.0005 s
C12_NotEarlierThanDeadline ==
    /\ C12_PacedFromCycleStart
    /\ last_row # NoRow =>
          2 * last_row.elapsed_ms * Scale + Scale > 2 * 1000 * i * ExactInterval

\* 60 s in 7 events: event 1 is created on time at 8.571428... s and its
\* record says 8.571
C12_Witness ==
    /\ pc = "pace" /\ cantidad = OddCantidad /\ i = 1
    /\ total_seconds = 60
    /\ now - start_cycle = ExactInterval
    /\ last_row # NoRow
    /\ last_row.elapsed_ms = 8571

(***************************************************************************)
(* C13.  Pacing deadlines are absolute from the cycle start: the sleep     *)
(* after event i is exactly max(0, cycle_start + (i+1) x interval - now),  *)
(* a late event shortens or removes later sleeps without moving any later  *)
(* deadline, and a completed cycle ends at                                 *)
(* max(cycle_start + total_seconds, completion time of the last attempt).  *)
(* As stated this is violated: time.sleep may return late.                 *)
(***************************************************************************)
\* the step of lines 114-117
PaceStep == pc = "pace" /\ pc' = "recheck"
\* max(0, sleep_until - now) in that step
ToSleep == Max(0, start_cycle + (i + 1) * ExactInterval - now)

\* nothing moves the deadlines of a cycle while it runs
C13_DeadlinesFixed ==
    /\ pc \in InCycles \ {"while"} => interval = ExactInterval
    /\ (pc \in InCycles \ {"while"} /\ pc' \in InCycles \ {"while"}) =>
          start_cycle' = start_cycle /\ interval' = interval

C13_OriginalStep ==
    /\ C13_DeadlinesFixed
    /\ PaceStep => now' = now + ToSleep
    /\ (PaceStep /\ i = cantidad - 1) =>
          now' = Max(start_cycle + total_seconds * Scale, now)

C13_Original == [][C13_OriginalStep]_vars

\* C13 as amended: the sleep asked for is max(0, sleep_until - now); the
\* iteration ends no earlier than that and exactly then when the sleep
\* returns on time, and not at all later when no sleep is due
C13_Step ==
    /\ C13_DeadlinesFixed
    /\ PaceStep =>
          /\ now' >= now + ToSleep
          /\ now' <= now + ToSleep + Oversleep * Scale
          /\ ToSleep = 0 => now' = now
          /\ delays' = delays => now' = now + ToSleep
    /\ (PaceStep /\ i = cantidad - 1) =>
          /\ now' >= Max(start_cycle + total_seconds * Scale, now)
          /\ delays' = delays =>
                now' = Max(start_cycle + total_seconds * Scale, now)

C13_AbsoluteDeadlines == [][C13_Step]_vars

\* event 0 ran late and event 1 of 2 still finished at its own deadline
C13_Witness ==
    /\ pc = "recheck" /\ cantidad = 2 /\ i = 1
    /\ delays = 1
    /\ now = start_cycle + total_seconds * Scale

(***************************************************************************)
(* C14.  No retries: in each cycle every index is attempted at most once,  *)
(* a failed attempt is followed by the attempt for the next index, a       *)
(* simulated failure creates no artifact, and the artifacts created in a   *)
(* cycle plus its simulated failures never exceed N.                       *)
(***************************************************************************)
C14_OnePerIndex ==
    /\ pc \in {"try", "create", "except"} =>
          /\ i = cyc_events + cyc_errors
          /\ range_pos = i + 1
          /\ i < cantidad
    /\ pc \in {"pace", "recheck"} => cyc_events + cyc_errors = i + 1
    /\ pc \in InCycles =>
          /\ cyc_created = cyc_events
          /\ cyc_failures <= cyc_errors + 1
          /\ cyc_created + cyc_failures <= cantidad

C14_FailureStep ==
    /\ (pc = "try" /\ pc' = "except") =>
          exc' = "Error simulado" /\ UNCHANGED <<input_files, cyc_created>>
    /\ (pc = "except" /\ pc' # pc) =>
          pc' = "pace" /\ UNCHANGED <<i, range_pos, input_files, cyc_created>>
    /\ (pc = "for" /\ pc' = "try") => i' = range_pos /\ range_pos' = i' + 1

C14_NoRetries == []C14_OnePerIndex /\ [][C14_FailureStep]_vars

\* index 0 failed without creating anything and index 1 is being attempted
C14_Witness ==
    /\ pc = "try" /\ i = 1
    /\ cyc_failures = 1 /\ cyc_errors = 1
    /\ cyc_events = 0 /\ cyc_created = 0

(***************************************************************************)
(* C15.  If the stop signal is set at any point of a run, in repeat or     *)
(* non-repeat mode, the run eventually ends, provided every attempt and    *)
(* every sleep finishes.  A signal set during the idle wait between two    *)
(* cycles is not observed during that wait: the next cycle starts and the  *)
(* run returns at its first checkpoint without attempting any event.       *)
(***************************************************************************)
Running == pc \notin {"idle", "returned", "raised"}

\* the flag was first set in this run while it was at its idle wait
SetDuringIdleWait == stop_requested /\ sig.pc = "idle_wait"

C15_IdleWaitNotObserved ==
    SetDuringIdleWait =>
        /\ loop
        /\ cycles = sig.cycle => pc \in {"idle_wait", "while"}
        /\ cycles # sig.cycle =>
              /\ cycles = sig.cycle + 1
              /\ pc \in {"for", "returned"}
              /\ range_pos = 0
              /\ cyc_events = 0 /\ cyc_errors = 0
              /\ cyc_created = 0 /\ cyc_failures = 0

C15_StoppedRunReturns ==
    /\ (stop_requested /\ Running) ~> ~Running
    /\ []((stop_requested /\ pc = "raised") => cycles = 0)
    /\ []C15_IdleWaitNotObserved

\* a repeating run stopped during its idle wait has begun the next cycle
\* and returned from it
C15_Witness ==
    /\ SetDuringIdleWait
    /\ pc = "returned"
    /\ cycles = sig.cycle + 1

(***************************************************************************)
(* C16.  A run whose duration expression parses to a zero total is         *)
(* rejected with the invalid-format error before any cycle begins,         *)
(* whatever the event count is: no cycle start is recorded, no artifact is *)
(* created and no Event or Error record is emitted; the same holds for a   *)
(* run rejected for a non-positive event count.                            *)
(***************************************************************************)
NothingAttempted ==
    /\ cycles = 0 /\ start_cycle = 0
    /\ cyc_created = 0 /\ cyc_events = 0 /\ cyc_errors = 0
    /\ cyc_failures = 0

C16_RejectedBeforeCycles ==
    /\ (runs >= 1 /\ TotalOf(tiempo) = 0) =>
          /\ pc \in {"ensure_dirs", "setup_logging", "parse", "raised"}
          /\ pc = "raised" => error = FormatError
          /\ NothingAttempted
    /\ pc = "raised" =>
          /\ error \in {FormatError, CountError}
          /\ error = FormatError => TotalOf(tiempo) = 0
          /\ error = CountError => TotalOf(tiempo) > 0 /\ cantidad <= 0
          /\ NothingAttempted
    /\ pc # "raised" => error = "none"

\* an invalid duration with an invalid count is rejected for its format
C16_Witness ==
    /\ pc = "raised" /\ error = FormatError
    /\ tiempo = <<"a", "b", "c">> /\ cantidad = -1
    /\ NothingAttempted

(***************************************************************************)
(* C17.  After any sequence of runs against the same base path, several    *)
(* calls in one process included, metrics.log starts with the header, the  *)
(* header occurs exactly once and every other row is one Event record,     *)
(* each successful creation contributing exactly one row.  This is         *)
(* violated: every call adds another FileHandler to the process-wide       *)
(* logger (lines 38-42), so from the second call on each record is written *)
(* once per handler.                                                       *)
(***************************************************************************)
RowsOf(log, kind) == Cardinality({k \in 1..Len(log) : log[k] = kind})

C17_MetricsWellFormed ==
    logs_exist =>
        /\ Len(metrics_log) >= 1 /\ metrics_log[1] = "header"
        /\ RowsOf(metrics_log, "header") = 1
        /\ RowsOf(metrics_log, "event") = input_files

(***************************************************************************)
(* C18.  The stop flag is process-wide and run_simulator never resets it,  *)
(* so every call that starts after the flag has been set returns at the    *)
(* first checkpoint of its first cycle, having attempted no event, created *)
(* no artifact and emitted no Event or Error record, in both modes; the    *)
(* directories and sinks are still set up and the duration is still        *)
(* validated.                                                              *)
(***************************************************************************)
\* the run in progress, or the last one, was called with the flag set
CalledAfterStop == sig = OldSig

C18_LateCallDoesNothing ==
    CalledAfterStop =>
        /\ stop_requested
        /\ pc \in BeforeCycles \cup {"while", "for", "returned", "raised"}
        /\ cycles <= 1 /\ range_pos = 0 /\ i = -1
        /\ cyc_created = 0 /\ cyc_events = 0 /\ cyc_errors = 0
        /\ cyc_failures = 0
        /\ pc \in {"parse", "check_cantidad", "while", "for", "returned",
                    "raised"} =>
              /\ dirs_exist /\ logs_exist
              /\ metrics_handlers >= 1 /\ errors_handlers >= 1
              /\ Len(metrics_log) >= 1
        /\ pc = "raised" =>
              /\ cycles = 0
              /\ TotalOf(tiempo) = 0 \/ cantidad <= 0
        /\ pc \in {"for", "returned"} =>
              /\ cycles = 1
              /\ TotalOf(tiempo) > 0 /\ cantidad > 0

\* a repeating run of two events called after the flag was set has
\* returned from its first cycle
C18_Witness ==
    /\ CalledAfterStop
    /\ pc = "returned" /\ loop /\ cantidad = 2
    /\ runs = 2 /\ cycles = 1

(***************************************************************************)
(* C19.  In repeat mode, whenever the event loop of a cycle completes, the *)
(* time elapsed since cycle_start is already at least total_seconds (the   *)
(* pacing sleep after the last event targets cycle_start + N x interval,   *)
(* which is cycle_start + total_seconds in exact arithmetic); the idle     *)
(* wait computed afterwards is 0 and the next cycle starts without any     *)
(* idle sleep.                                                             *)
(***************************************************************************)
C19_NothingLeftToIdle ==
    pc = "idle_wait" =>
        /\ loop
        /\ cantidad * ExactInterval = total_seconds * Scale
        /\ now - start_cycle >= total_seconds * Scale
        /\ Max(0, total_seconds * Scale - (now - start_cycle)) = 0

C19_IdleStep ==
    /\ (pc = "idle_wait" /\ pc' # pc) =>
          pc' = "while" /\ now' = now /\ delays' = delays
    /\ (pc = "while" /\ pc' # pc) => pc' = "for" /\ start_cycle' = now

C19_IdleWaitIsZero == []C19_NothingLeftToIdle /\ [][C19_IdleStep]_vars

\* a repeating run is at line 94 again, exactly total_seconds after the
\* start of its first cycle, with the flag clear
C19_Witness ==
    /\ pc = "while" /\ loop /\ ~stop_requested
    /\ cycles = 1 /\ cantidad = 2
    /\ now - start_cycle = total_seconds * Scale

====
